---- MODULE Spec2Model ----
(***************************************************************************)
(* Model of filesystem-rados: the position-tracking stream adapters        *)
(* (ReadWriteCloser, RadosReadWriteCloser, Appender, RadosAppender), the   *)
(* pool context cache (radosFileSystem.getContext), the facade operations  *)
(* (OpenReader, OpenWriter, OpenAppender, Remove) and the directory        *)
(* listing (ListEntries).                                                  *)
(*                                                                         *)
(* The Rados client (go-ceph) is the environment: every call to it either  *)
(* fails with an error chosen by the environment or acts on the object as  *)
(* librados does.                                                          *)
(*                                                                         *)
(* Strings that the code slices (object names, prefixes) are sequences of  *)
(* one-character strings.                                                  *)
(***************************************************************************)
EXTENDS Integers, Sequences, FiniteSets, TLC

(***************************************************************************)
(* Bounds of the model.                                                    *)
(***************************************************************************)
\* Longest buffer handed to Read or Write.
MaxLen == 2
\* Largest cursor position explored (a guard of Write caps it).
MaxPos == 2
\* Largest object size and appender position explored (a guard of the
\* appender's Write caps them).
MaxSize == 4
\* Largest number of contexts the client creates per pool.
MaxOpens == 2
\* Largest number of objects in the pool that ListEntries scans.
MaxObjects == 4

(***************************************************************************)
(* Program constants.                                                      *)
(***************************************************************************)
SEEK_SET == 0
SEEK_CUR == 1
SEEK_END == 2
\* A whence value that is none of the three above.
SEEK_OTHER == SEEK_END + 1

Whences == {SEEK_SET, SEEK_CUR, SEEK_END, SEEK_OTHER}
Offsets == (0 - (MaxPos + 1)) .. (MaxPos + 1)
AppendOffsets == (0 - 1) .. 1

\* Error values.
NoErr == "nil"
EIO == "EIO"                      \* any error of the Rados client
ENOENT == "ENOENT"                \* the Rados client's "no such object"
EOF == "io.EOF"
ErrInvalid == "os.ErrInvalid"
EUNSUPP == "filesystem.EUNSUPP"

\* The byte a caller writes; 0 is the byte librados fills holes with.
Bytes == {1}
\* A nil pointer; a context handle is <<pool, k>>.
Nil == <<>>

Min(a, b) == IF a < b THEN a ELSE b
Max(a, b) == IF a > b THEN a ELSE b

SeqsUpTo(S, n) == UNION {[1..k -> S] : k \in 0..n}
Buffers == SeqsUpTo(Bytes, MaxLen)

(***************************************************************************)
(* The Rados client, per I/O context: an object is NoObject or its bytes.  *)
(* `fail` is the environment's choice to make the call fail.               *)
(***************************************************************************)
NoObject == [exists |-> FALSE, data |-> <<>>]
Object(data) == [exists |-> TRUE, data |-> data]
ObjSize(obj) == Len(obj.data)

\* rctx.Read(oid, p, offset) with len(p) = len: (n, err) and the bytes put
\* into p. go-ceph answers (0, nil) for an empty p without asking the store.
StoreRead(obj, len, off, fail) ==
    IF fail THEN [n |-> 0, err |-> EIO, data |-> <<>>]
    ELSE IF len = 0 THEN [n |-> 0, err |-> NoErr, data |-> <<>>]
    ELSE IF ~obj.exists THEN [n |-> 0, err |-> ENOENT, data |-> <<>>]
    ELSE LET n == Min(len, Max(0, Len(obj.data) - off))
         IN  [n |-> n, err |-> NoErr, data |-> SubSeq(obj.data, off + 1, off + n)]

\* rctx.Write(oid, p, offset): the object after the write, created when
\* absent, holes zero-filled.
WrittenObject(obj, data, off) ==
    LET old == obj.data
        newlen == Max(Len(old), off + Len(data))
    IN  Object([i \in 1..newlen |->
            IF i > off /\ i <= off + Len(data) THEN data[i - off]
            ELSE IF i <= Len(old) THEN old[i]
            ELSE 0])

StoreWrite(obj, data, off, fail) ==
    IF fail THEN [obj |-> obj, err |-> EIO]
    ELSE [obj |-> WrittenObject(obj, data, off), err |-> NoErr]

\* Mutant: the bytes are written at the start of the object.
StoreAppend_AtStart(obj, data, fail) ==
    IF fail THEN [obj |-> obj, err |-> EIO]
    ELSE [obj |-> WrittenObject(obj, data, 0), err |-> NoErr]

\* rctx.Append(oid, p): creates the object when absent; one atomic operation
\* of the store.
StoreAppend(obj, data, fail) ==
    IF fail THEN [obj |-> obj, err |-> EIO]
    ELSE [obj |-> Object(obj.data \o data), err |-> NoErr]

\* rctx.Stat(oid): (stat.Size, err).
StoreStat(obj, fail) ==
    IF fail THEN [size |-> 0, err |-> EIO]
    ELSE IF ~obj.exists THEN [size |-> 0, err |-> ENOENT]
    ELSE [size |-> Len(obj.data), err |-> NoErr]

\* Mutant: the truncation leaves the object's bytes.
StoreTruncate_KeepsBytes(obj, fail, creates) ==
    IF fail THEN [obj |-> obj, err |-> EIO] ELSE [obj |-> obj, err |-> NoErr]

\* rctx.Truncate(oid, 0). On an absent object librados either creates an
\* empty object or does nothing, depending on the version: `creates` is the
\* environment's choice.
StoreTruncate(obj, fail, creates) ==
    IF fail THEN [obj |-> obj, err |-> EIO]
    ELSE IF ~obj.exists /\ ~creates THEN [obj |-> NoObject, err |-> NoErr]
    ELSE [obj |-> Object(<<>>), err |-> NoErr]

\* rctx.Delete(oid).
StoreDelete(obj, fail) ==
    IF fail THEN [obj |-> obj, err |-> EIO]
    ELSE IF ~obj.exists THEN [obj |-> obj, err |-> ENOENT]
    ELSE [obj |-> NoObject, err |-> NoErr]

(***************************************************************************)
(* Cursor adapters: ReadWriteCloser (the one the facade hands out) and     *)
(* RadosReadWriteCloser. Each method is a function of the adapter's        *)
(* position, the call's arguments and what the Rados client answered; it   *)
(* yields the new position and the values returned to the caller.          *)
(* The pool field of ReadWriteCloser only labels metrics and is left out.  *)
(***************************************************************************)
NewReadWriteCloser(rctx, oid) ==
    [kind |-> "ReadWriteCloser", rctx |-> rctx, oid |-> oid, pos |-> 0]

NewRadosReadWriteCloser(rctx, oid) ==
    [kind |-> "RadosReadWriteCloser", rctx |-> rctx, oid |-> oid, pos |-> 0]

\* Mutant: a read of 0 bytes without error is passed on as it is.
ReadWriteCloser_Read_NoEOF(pos, sr) ==
    [pos |-> IF sr.n > 0 THEN pos + sr.n ELSE pos, n |-> sr.n, err |-> sr.err]

\* sr is the (n, err) of rctx.Read.
ReadWriteCloser_Read(pos, sr) ==
    [pos |-> IF sr.n > 0 THEN pos + sr.n ELSE pos,
     n   |-> sr.n,
     err |-> IF sr.n > 0 THEN sr.err
             ELSE IF sr.n = 0 /\ sr.err = NoErr THEN EOF
             ELSE sr.err]

RadosReadWriteCloser_Read(pos, sr) ==
    [pos |-> IF sr.n > 0 THEN pos + sr.n ELSE pos,
     n   |-> sr.n,
     err |-> sr.err]

\* Mutant: a failed write still reports the buffer as written.
ReadWriteCloser_Write_ReportsOnFailure(pos, len, serr) ==
    [pos |-> IF serr # NoErr THEN pos ELSE pos + len, n |-> len, err |-> serr]

\* Mutant: the position is not advanced by a successful write.
ReadWriteCloser_Write_NoAdvance(pos, len, serr) ==
    IF serr # NoErr THEN [pos |-> pos, n |-> 0, err |-> serr]
    ELSE [pos |-> pos, n |-> len, err |-> NoErr]

\* serr is the error of rctx.Write, len is len(p).
ReadWriteCloser_Write(pos, len, serr) ==
    IF serr # NoErr THEN [pos |-> pos, n |-> 0, err |-> serr]
    ELSE [pos |-> pos + len, n |-> len, err |-> NoErr]

RadosReadWriteCloser_Write(pos, len, serr) ==
    IF serr = NoErr THEN [pos |-> pos + len, n |-> len, err |-> NoErr]
    ELSE [pos |-> pos, n |-> 0, err |-> serr]

\* Mutant: a seek relative to the current position counts from the start.
SeekTarget_CurrentFromStart(pos, offset, whence, size) ==
    IF whence = SEEK_SET \/ whence = SEEK_CUR THEN offset
    ELSE IF whence = SEEK_END THEN size + offset
    ELSE 0

\* Mutant: an unknown whence leaves the target at the current position.
SeekTarget_OtherKeepsPosition(pos, offset, whence, size) ==
    IF whence = SEEK_SET THEN offset
    ELSE IF whence = SEEK_CUR THEN pos + offset
    ELSE IF whence = SEEK_END THEN size + offset
    ELSE pos

\* newpos is declared without a value: it is 0 unless a branch assigns it.
SeekTarget(pos, offset, whence, size) ==
    IF whence = SEEK_SET THEN offset
    ELSE IF whence = SEEK_CUR THEN pos + offset
    ELSE IF whence = SEEK_END THEN size + offset
    ELSE 0

\* Mutant: the upper bound of the range check is dropped.
ReadWriteCloser_Seek_NoUpperBound(pos, offset, whence, st) ==
    IF st.err # NoErr THEN [pos |-> pos, ret |-> pos, err |-> st.err]
    ELSE LET newpos == SeekTarget(pos, offset, whence, st.size)
         IN  IF newpos < 0
             THEN [pos |-> pos, ret |-> pos, err |-> ErrInvalid]
             ELSE [pos |-> newpos, ret |-> newpos, err |-> NoErr]

\* Mutant: a seek relative to the end is not range-checked.
ReadWriteCloser_Seek_UncheckedEnd(pos, offset, whence, st) ==
    IF st.err # NoErr THEN [pos |-> pos, ret |-> pos, err |-> st.err]
    ELSE LET newpos == SeekTarget(pos, offset, whence, st.size)
         IN  IF whence # SEEK_END /\ (newpos < 0 \/ newpos > st.size)
             THEN [pos |-> pos, ret |-> pos, err |-> ErrInvalid]
             ELSE [pos |-> newpos, ret |-> newpos, err |-> NoErr]

\* Mutant: a failed Stat is taken as size 0 and the seek goes on.
ReadWriteCloser_Seek_IgnoresStatError(pos, offset, whence, st) ==
    LET newpos == SeekTarget(pos, offset, whence, st.size)
    IN  IF newpos < 0 \/ newpos > st.size
        THEN [pos |-> pos, ret |-> pos, err |-> ErrInvalid]
        ELSE [pos |-> newpos, ret |-> newpos, err |-> NoErr]

\* st is the (stat.Size, err) of rctx.Stat.
ReadWriteCloser_Seek(pos, offset, whence, st) ==
    IF st.err # NoErr THEN [pos |-> pos, ret |-> pos, err |-> st.err]
    ELSE LET newpos == SeekTarget(pos, offset, whence, st.size)
         IN  IF newpos < 0 \/ newpos > st.size
             THEN [pos |-> pos, ret |-> pos, err |-> ErrInvalid]
             ELSE [pos |-> newpos, ret |-> newpos, err |-> NoErr]

RadosReadWriteCloser_Seek(pos, offset, whence, st) ==
    IF st.err # NoErr THEN [pos |-> pos, ret |-> pos, err |-> st.err]
    ELSE LET newpos == SeekTarget(pos, offset, whence, st.size)
         IN  IF newpos < 0 \/ newpos > st.size
             THEN [pos |-> pos, ret |-> pos, err |-> ErrInvalid]
             ELSE [pos |-> newpos, ret |-> newpos, err |-> NoErr]

ReadWriteCloser_Tell(pos) == [ret |-> pos, err |-> NoErr]

\* Dispatch on the adapter's type.
Cursor_Read(kind, pos, sr) ==
    IF kind = "ReadWriteCloser" THEN ReadWriteCloser_Read(pos, sr)
    ELSE RadosReadWriteCloser_Read(pos, sr)

Cursor_Write(kind, pos, len, serr) ==
    IF kind = "ReadWriteCloser" THEN ReadWriteCloser_Write(pos, len, serr)
    ELSE RadosReadWriteCloser_Write(pos, len, serr)

Cursor_Seek(kind, pos, offset, whence, st) ==
    IF kind = "ReadWriteCloser" THEN ReadWriteCloser_Seek(pos, offset, whence, st)
    ELSE RadosReadWriteCloser_Seek(pos, offset, whence, st)

(***************************************************************************)
(* Append adapters: Appender (the one the facade hands out) and            *)
(* RadosAppender.                                                          *)
(***************************************************************************)
\* Mutant: the appender starts at 0 whatever Stat answers.
NewAppender_StartsAtZero(rctx, oid, poolErr, st) ==
    IF poolErr # NoErr THEN [ret |-> Nil, err |-> poolErr]
    ELSE [ret |-> [kind |-> "Appender", rctx |-> rctx, oid |-> oid, pos |-> 0],
          err |-> NoErr]

\* poolErr is the error of rctx.GetPoolName, st the (size, err) of rctx.Stat.
NewAppender(rctx, oid, poolErr, st) ==
    IF poolErr # NoErr THEN [ret |-> Nil, err |-> poolErr]
    ELSE [ret |-> [kind |-> "Appender", rctx |-> rctx, oid |-> oid,
                   pos |-> IF st.err = NoErr THEN st.size ELSE 0],
          err |-> NoErr]

NewRadosAppender(rctx, oid, st) ==
    [ret |-> [kind |-> "RadosAppender", rctx |-> rctx, oid |-> oid,
              pos |-> IF st.err = NoErr THEN st.size ELSE 0],
     err |-> NoErr]

\* Mutant: the position is set to the object's size after the append
\* instead of being advanced by len(p).
Appender_Write_TracksSize(pos, len, serr, size) ==
    IF serr # NoErr THEN [pos |-> pos, n |-> 0, err |-> serr]
    ELSE [pos |-> size, n |-> len, err |-> NoErr]

\* serr is the error of rctx.Append; size, the object's size after the
\* call, is not read by the code.
Appender_Write(pos, len, serr, size) ==
    IF serr # NoErr THEN [pos |-> pos, n |-> 0, err |-> serr]
    ELSE [pos |-> pos + len, n |-> len, err |-> NoErr]

RadosAppender_Write(pos, len, serr, size) ==
    IF serr # NoErr THEN [pos |-> pos, n |-> 0, err |-> serr]
    ELSE [pos |-> pos + len, n |-> len, err |-> NoErr]

\* Mutant: any seek relative to the current position is accepted.
Appender_Seek_AnyOffset(pos, offset, whence) ==
    IF whence = SEEK_CUR THEN [pos |-> pos, ret |-> pos, err |-> NoErr]
    ELSE [pos |-> pos, ret |-> pos, err |-> EUNSUPP]

Appender_Seek(pos, offset, whence) ==
    IF offset = 0 /\ whence = SEEK_CUR
    THEN [pos |-> pos, ret |-> pos, err |-> NoErr]
    ELSE [pos |-> pos, ret |-> pos, err |-> EUNSUPP]

RadosAppender_Seek(pos, offset, whence) ==
    IF offset = 0 /\ whence = SEEK_CUR
    THEN [pos |-> pos, ret |-> pos, err |-> NoErr]
    ELSE [pos |-> pos, ret |-> pos, err |-> EUNSUPP]

Appender_Tell(pos) == [ret |-> pos, err |-> NoErr]

Append_Write(kind, pos, len, serr, size) ==
    IF kind = "Appender" THEN Appender_Write(pos, len, serr, size)
    ELSE RadosAppender_Write(pos, len, serr, size)

Append_Seek(kind, pos, offset, whence) ==
    IF kind = "Appender" THEN Appender_Seek(pos, offset, whence)
    ELSE RadosAppender_Seek(pos, offset, whence)

(***************************************************************************)
(* The pool context cache.                                                 *)
(***************************************************************************)
\* r.rfs.OpenIOContext(pool): the k+1-th context the client creates for
\* the pool, or an error.
OpenIOContext(pool, k, fail) ==
    IF fail THEN [h |-> Nil, err |-> EIO]
    ELSE [h |-> <<pool, k + 1>>, err |-> NoErr]

\* Mutant: the opened context is returned but not stored in the map.
getContext_NoStore(ctxs, pool, res) ==
    IF ctxs[pool] # Nil
    THEN [ctxs |-> ctxs, ret |-> ctxs[pool], err |-> NoErr, called |-> FALSE]
    ELSE IF res.err # NoErr
    THEN [ctxs |-> ctxs, ret |-> Nil, err |-> res.err, called |-> TRUE]
    ELSE [ctxs |-> ctxs, ret |-> res.h, err |-> NoErr, called |-> TRUE]

\* ctxs is r.openContexts, a missing key reading as Nil; res is what
\* OpenIOContext answers when it is called; `called` tells whether it was.
\* The whole body runs with openContextsMtx held.
getContext(ctxs, pool, res) ==
    IF ctxs[pool] # Nil
    THEN [ctxs |-> ctxs, ret |-> ctxs[pool], err |-> NoErr, called |-> FALSE]
    ELSE IF res.err # NoErr
    THEN [ctxs |-> ctxs, ret |-> Nil, err |-> res.err, called |-> TRUE]
    ELSE [ctxs |-> [ctxs EXCEPT ![pool] = res.h],
          ret |-> res.h, err |-> NoErr, called |-> TRUE]

(***************************************************************************)
(* State.                                                                  *)
(***************************************************************************)
Pools == {"p1", "p2", "p3"}
\* The URLs the facade is called with: u.Host names the pool, u.Path the
\* object. The stream operations all use one object of one pool. net/url
\* parses rados://p1/obj into Host "p1" and Path "/obj", slash included.
URLs == {[Host |-> "p1", Path |-> <<"/", "o", "b", "j">>]}
Oids == {u.Path : u \in URLs}
\* The adapters the callers hold: one variable per adapter type.
CursorIds == {"rwc", "rrwc"}
AppenderIds == {"app", "rapp"}
FacadeCursors == {"rwc"}        \* *ReadWriteCloser, from OpenReader/OpenWriter
DirectCursors == {"rrwc"}       \* *RadosReadWriteCloser
FacadeAppenders == {"app"}      \* *Appender, from OpenAppender
DirectAppenders == {"rapp"}     \* *RadosAppender

NoAdapter == [kind |-> "none", rctx |-> Nil, oid |-> <<>>, pos |-> 0]

VARIABLES
    objects,       \* the pool's objects: [Oids -> NoObject or Object(bytes)]
    openContexts,  \* radosFileSystem.openContexts: [Pools -> handle or Nil]
    opened,        \* per pool, the contexts the client has created so far
    handed,        \* per pool, the handles getContext has returned so far
    cursors,       \* the cursor adapters constructed so far
    appenders,     \* the append adapters constructed so far
    last,          \* the last call: its arguments, the store's answer, its results
    cexp,          \* per cursor: position after construction or the last Seek,
                   \*   plus the bytes its successful Reads and Writes reported since
    aexp,          \* per appender: position set at construction, plus the bytes
                   \*   its successful Writes reported
    shrunk,        \* per cursor: its object was truncated or removed since construction
    lsNames,       \* ListEntries: the object names in the pool
    lsPath,        \* ListEntries: u.Path
    lsOut,         \* ListEntries: what the call returned (objs: the keys of
                   \* the map, list: the slice built from them)
    registry,      \* filesystem.AddImplementation: the schemes that have a handler
    lastInit,      \* the last initialization call: its inputs, its log, its result
    openContextsMtx, \* radosFileSystem.openContextsMtx: the caller holding it
    callers,       \* concurrent callers of getContext: where each one stands
    rt,            \* monitor of the write, seek, read round trip of a cursor
    appended       \* trace of the buffers each appender wrote to its object

vars == <<objects, openContexts, opened, handed, cursors, appenders,
          last, cexp, aexp, shrunk, lsNames, lsPath, lsOut,
          registry, lastInit, openContextsMtx, callers, rt, appended>>

ctxVars == <<openContexts, opened, handed>>
cursorVars == <<cursors, cexp, shrunk>>
appenderVars == <<appenders, aexp>>
lsVars == <<lsNames, lsPath, lsOut>>
initVars == <<registry, lastInit>>
mtxVars == <<openContextsMtx, callers>>

\* One record shape for every call. arg: len(p) or offset; old: position
\* before the call; sn, serr: what the store call answered (n or size, error).
Call(op, id, arg, whence, old, sn, serr, ret, err) ==
    [op |-> op, id |-> id, arg |-> arg, whence |-> whence, old |-> old,
     sn |-> sn, serr |-> serr, ret |-> ret, err |-> err]

NoCall == Call("none", "", 0, 0, 0, 0, NoErr, Nil, NoErr)

LsIdle == [state |-> "idle", objs |-> {}, err |-> NoErr, list |-> <<>>]

\* No initialization call yet.
NoInit == [called |-> FALSE, constructed |-> FALSE, configPath |-> "",
           failing |-> {}, logged |-> {}, registered |-> FALSE, err |-> NoErr]

\* The goroutines that call getContext concurrently.
Callers == {"t1", "t2"}
NoOwner == "unlocked"
IdleCaller == [pc |-> "idle", pool |-> "", ret |-> Nil, err |-> NoErr,
               called |-> FALSE]

\* The round-trip monitor when it is not started.
RtOff == [step |-> "off", b |-> <<>>, got |-> <<>>]
\* The append trace when it is not recorded.
NotTraced == [on |-> FALSE, base |-> <<>>, by |-> <<>>]

InitStreams ==
    /\ registry = {}
    /\ lastInit = NoInit
    /\ openContextsMtx = NoOwner
    /\ callers = [t \in Callers |-> IdleCaller]
    /\ openContexts = [p \in Pools |-> Nil]
    /\ opened = [p \in Pools |-> 0]
    /\ handed = [p \in Pools |-> {}]
    /\ cursors = [c \in CursorIds |-> NoAdapter]
    /\ appenders = [a \in AppenderIds |-> NoAdapter]
    /\ last = NoCall
    /\ cexp = [c \in CursorIds |-> 0]
    /\ aexp = [a \in AppenderIds |-> 0]
    /\ shrunk = [c \in CursorIds |-> FALSE]

\* The pool may already hold the object when the program starts.
Init ==
    /\ InitStreams
    /\ objects \in [Oids -> {NoObject} \cup {Object(d) : d \in SeqsUpTo({0} \cup Bytes, 1)}]
    /\ lsNames = {}
    /\ lsPath = <<>>
    /\ lsOut = LsIdle
    /\ rt = RtOff
    /\ appended = NotTraced

(***************************************************************************)
(* r.getContext(pool) as called by the facade: the cache and the client's  *)
(* contexts after the call.                                                *)
(***************************************************************************)
GetCtx(pool, fail) ==
    getContext(openContexts, pool, OpenIOContext(pool, opened[pool], fail))

CtxGuard(pool) == openContexts[pool] # Nil \/ opened[pool] < MaxOpens

CtxEffect(pool, g) ==
    /\ openContexts' = g.ctxs
    /\ opened' = IF g.called /\ g.err = NoErr
                 THEN [opened EXCEPT ![pool] = @ + 1] ELSE opened
    /\ handed' = IF g.err = NoErr
                 THEN [handed EXCEPT ![pool] = @ \cup {g.ret}] ELSE handed

\* A call of getContext on its own. last.sn tells whether OpenIOContext
\* was called.
GetContextCall(pool, fail) ==
    /\ CtxGuard(pool)
    /\ LET g == GetCtx(pool, fail)
       IN  /\ CtxEffect(pool, g)
           /\ last' = Call("getContext", pool, 0, 0, 0,
                           IF g.called THEN 1 ELSE 0, NoErr, g.ret, g.err)
    /\ UNCHANGED <<objects, cursorVars, appenderVars, lsVars, initVars, mtxVars, rt, appended>>

(***************************************************************************)
(* Facade operations.                                                      *)
(***************************************************************************)
\* The cursors on the object other than a newly constructed one see it shrink.
ShrinkOn(oid, did) ==
    [c \in CursorIds |->
        IF did /\ cursors[c].kind # "none" /\ cursors[c].oid = oid
        THEN TRUE ELSE shrunk[c]]

OpenReader(c, u, openFail) ==
    /\ cursors[c].kind = "none"
    /\ CtxGuard(u.Host)
    /\ LET g == GetCtx(u.Host, openFail)
       IN  /\ CtxEffect(u.Host, g)
           /\ IF g.err # NoErr
              THEN /\ last' = Call("OpenReader", c, 0, 0, 0, 0, NoErr, Nil, g.err)
                   /\ UNCHANGED cursors
              ELSE /\ cursors' = [cursors EXCEPT ![c] = NewReadWriteCloser(g.ret, u.Path)]
                   /\ last' = Call("OpenReader", c, 0, 0, 0, 0, NoErr, c, NoErr)
    /\ UNCHANGED <<objects, cexp, shrunk, appenderVars, lsVars, initVars, mtxVars, rt, appended>>

\* last.arg tells whether rctx.Truncate was called, last.sn is the object's
\* size after it, last.serr its error.
OpenWriter(c, u, openFail, truncFail, creates) ==
    /\ cursors[c].kind = "none"
    /\ CtxGuard(u.Host)
    /\ LET g == GetCtx(u.Host, openFail)
           t == StoreTruncate(objects[u.Path], truncFail, creates)
       IN  /\ CtxEffect(u.Host, g)
           /\ IF g.err # NoErr
              THEN /\ last' = Call("OpenWriter", c, 0, 0, 0, 0, NoErr, Nil, g.err)
                   /\ UNCHANGED <<cursors, objects, shrunk>>
              ELSE IF t.err # NoErr
              THEN /\ last' = Call("OpenWriter", c, 1, 0, 0, 0, t.err, Nil, t.err)
                   /\ UNCHANGED <<cursors, objects, shrunk>>
              ELSE /\ objects' = [objects EXCEPT ![u.Path] = t.obj]
                   /\ shrunk' = ShrinkOn(u.Path, TRUE)
                   /\ cursors' = [cursors EXCEPT ![c] = NewReadWriteCloser(g.ret, u.Path)]
                   /\ last' = Call("OpenWriter", c, 1, 0, 0,
                                   ObjSize(t.obj), NoErr, c, NoErr)
    /\ UNCHANGED <<cexp, appenderVars, lsVars, initVars, mtxVars, rt, appended>>

\* last.arg tells whether NewAppender was called, last.serr is the error of
\* GetPoolName or else of Stat.
OpenAppender(a, u, openFail, poolFail, statFail) ==
    /\ appenders[a].kind = "none"
    /\ CtxGuard(u.Host)
    /\ LET g == GetCtx(u.Host, openFail)
           st == StoreStat(objects[u.Path], statFail)
           na == NewAppender(g.ret, u.Path, IF poolFail THEN EIO ELSE NoErr, st)
       IN  /\ CtxEffect(u.Host, g)
           /\ IF g.err # NoErr
              THEN /\ last' = Call("OpenAppender", a, 0, 0, 0, 0, NoErr, Nil, g.err)
                   /\ UNCHANGED appenderVars
              ELSE IF na.err # NoErr
              THEN /\ last' = Call("OpenAppender", a, 1, 0, 0, 0, na.err, Nil, na.err)
                   /\ UNCHANGED appenderVars
              ELSE /\ appenders' = [appenders EXCEPT ![a] = na.ret]
                   /\ aexp' = [aexp EXCEPT ![a] = na.ret.pos]
                   /\ last' = Call("OpenAppender", a, 1, 0, 0,
                                   st.size, st.err, a, NoErr)
    /\ UNCHANGED <<objects, cursorVars, lsVars, initVars, mtxVars, rt, appended>>

Remove(u, openFail, fail) ==
    /\ CtxGuard(u.Host)
    /\ LET g == GetCtx(u.Host, openFail)
           d == StoreDelete(objects[u.Path], fail)
       IN  /\ CtxEffect(u.Host, g)
           /\ IF g.err # NoErr
              THEN /\ last' = Call("Remove", u.Path, 0, 0, 0, 0, NoErr, 0, g.err)
                   /\ UNCHANGED <<objects, shrunk>>
              ELSE /\ objects' = [objects EXCEPT ![u.Path] = d.obj]
                   /\ shrunk' = ShrinkOn(u.Path, d.err = NoErr)
                   /\ last' = Call("Remove", u.Path, 0, 0, 0, 0, d.err, 0, d.err)
    /\ UNCHANGED <<cursors, cexp, appenderVars, lsVars, initVars, mtxVars, rt, appended>>

(***************************************************************************)
(* The adapters constructed directly on a context the cache holds.         *)
(***************************************************************************)
ConstructRadosReadWriteCloser(c, u) ==
    /\ cursors[c].kind = "none"
    /\ openContexts[u.Host] # Nil
    /\ cursors' = [cursors EXCEPT
                     ![c] = NewRadosReadWriteCloser(openContexts[u.Host], u.Path)]
    /\ last' = Call("NewRadosReadWriteCloser", c, 0, 0, 0, 0, NoErr, c, NoErr)
    /\ UNCHANGED <<objects, ctxVars, cexp, shrunk, appenderVars, lsVars, initVars, mtxVars, rt, appended>>

ConstructRadosAppender(a, u, statFail) ==
    /\ appenders[a].kind = "none"
    /\ openContexts[u.Host] # Nil
    /\ LET st == StoreStat(objects[u.Path], statFail)
           na == NewRadosAppender(openContexts[u.Host], u.Path, st)
       IN  /\ appenders' = [appenders EXCEPT ![a] = na.ret]
           /\ aexp' = [aexp EXCEPT ![a] = na.ret.pos]
           /\ last' = Call("NewRadosAppender", a, 1, 0, 0, st.size, st.err, a, na.err)
    /\ UNCHANGED <<objects, ctxVars, cursorVars, lsVars, initVars, mtxVars, rt, appended>>

(***************************************************************************)
(* Cursor adapter calls.                                                   *)
(***************************************************************************)
\* The cursor whose calls the round-trip monitor follows, and the bytes of
\* the buffers written in the round trip.
RtCursor == "rwc"
RoundTripBytes == {1, 2, 3}
RoundTripBuffers == SeqsUpTo(RoundTripBytes, MaxLen)
RtArmed == [step |-> "armed", b |-> <<>>, got |-> <<>>]

\* The monitor after a call of a cursor: it follows the sequence Write(b) at
\* position 0, Tell, Seek(0, Start), Read into len(b) bytes, Tell, Read, as
\* long as no store call fails, whatever the calls return; it remembers b and
\* the bytes the Read delivered. Any other call turns it off.
RoundTrip(m, call, bytes) ==
    IF m.step = "off" THEN m
    ELSE IF call.id # RtCursor \/ call.serr # NoErr THEN RtOff
    ELSE IF m.step = "armed" /\ call.op = "Write" /\ call.old = 0 /\ bytes # <<>>
    THEN [step |-> "written", b |-> bytes, got |-> <<>>]
    ELSE IF m.step = "written" /\ call.op = "Tell"
    THEN [m EXCEPT !.step = "told"]
    ELSE IF m.step = "told" /\ call.op = "Seek" /\ call.arg = 0
            /\ call.whence = SEEK_SET
    THEN [m EXCEPT !.step = "rewound"]
    ELSE IF m.step = "rewound" /\ call.op = "Read" /\ call.arg = Len(m.b)
    THEN [m EXCEPT !.step = "read", !.got = bytes]
    ELSE IF m.step = "read" /\ call.op = "Tell"
    THEN [m EXCEPT !.step = "told again"]
    ELSE IF m.step = "told again" /\ call.op = "Read"
    THEN [m EXCEPT !.step = "end"]
    ELSE RtOff

Read(c, len, fail) ==
    /\ cursors[c].kind # "none"
    /\ LET r == cursors[c]
           sr == StoreRead(objects[r.oid], len, r.pos, fail)
           res == Cursor_Read(r.kind, r.pos, sr)
       IN  /\ cursors' = [cursors EXCEPT ![c].pos = res.pos]
           /\ cexp' = [cexp EXCEPT ![c] = @ + (IF res.err = NoErr THEN res.n ELSE 0)]
           /\ last' = Call("Read", c, len, 0, r.pos, sr.n, sr.err, res.n, res.err)
           /\ rt' = RoundTrip(rt, last', sr.data)
    /\ UNCHANGED <<objects, ctxVars, shrunk, appenderVars, lsVars, initVars, mtxVars,
                   appended>>

Write(c, p, fail) ==
    /\ cursors[c].kind # "none"
    /\ cursors[c].pos + Len(p) <= MaxPos
    /\ LET r == cursors[c]
           sw == StoreWrite(objects[r.oid], p, r.pos, fail)
           res == Cursor_Write(r.kind, r.pos, Len(p), sw.err)
       IN  /\ objects' = [objects EXCEPT ![r.oid] = sw.obj]
           /\ cursors' = [cursors EXCEPT ![c].pos = res.pos]
           /\ cexp' = [cexp EXCEPT ![c] = @ + (IF res.err = NoErr THEN res.n ELSE 0)]
           /\ last' = Call("Write", c, Len(p), 0, r.pos, 0, sw.err, res.n, res.err)
           /\ rt' = RoundTrip(rt, last', p)
    /\ UNCHANGED <<ctxVars, shrunk, appenderVars, lsVars, initVars, mtxVars, appended>>

Seek(c, offset, whence, fail) ==
    /\ cursors[c].kind # "none"
    /\ LET r == cursors[c]
           st == StoreStat(objects[r.oid], fail)
           res == Cursor_Seek(r.kind, r.pos, offset, whence, st)
       IN  /\ cursors' = [cursors EXCEPT ![c].pos = res.pos]
           /\ cexp' = [cexp EXCEPT ![c] = res.pos]
           /\ last' = Call("Seek", c, offset, whence, r.pos, st.size, st.err,
                           res.ret, res.err)
           /\ rt' = RoundTrip(rt, last', <<>>)
    /\ UNCHANGED <<objects, ctxVars, shrunk, appenderVars, lsVars, initVars, mtxVars,
                   appended>>

Tell(c) ==
    /\ cursors[c].kind # "none"
    /\ LET res == ReadWriteCloser_Tell(cursors[c].pos)
       IN  /\ last' = Call("Tell", c, 0, 0, cursors[c].pos, 0, NoErr, res.ret, res.err)
           /\ rt' = RoundTrip(rt, last', <<>>)
    /\ UNCHANGED <<objects, ctxVars, cursorVars, appenderVars, lsVars, initVars,
                   mtxVars, appended>>

(***************************************************************************)
(* Append adapter calls. Write is one rctx.Append, atomic in the store,    *)
(* followed by statements on the adapter's own fields: the Writes of       *)
(* different adapters interleave as whole steps.                           *)
(***************************************************************************)
\* The bytes of the buffers whose order in the object is traced.
AppendOrderBytes == {1, 2}
AppendOrderBuffers == SeqsUpTo(AppendOrderBytes, MaxLen)

\* The trace after appender a's Write(p) returned err: the non-empty buffers
\* of each appender's successful Writes, in the order of its calls.
Traced(tr, a, p, err) ==
    IF tr.on /\ err = NoErr /\ p # <<>>
    THEN [tr EXCEPT !.by[a] = Append(@, p)]
    ELSE tr

AppendWrite(a, p, fail) ==
    /\ appenders[a].kind # "none"
    /\ appenders[a].pos + Len(p) <= MaxSize
    /\ ObjSize(objects[appenders[a].oid]) + Len(p) <= MaxSize
    /\ LET w == appenders[a]
           sa == StoreAppend(objects[w.oid], p, fail)
           res == Append_Write(w.kind, w.pos, Len(p), sa.err, ObjSize(sa.obj))
       IN  /\ objects' = [objects EXCEPT ![w.oid] = sa.obj]
           /\ appenders' = [appenders EXCEPT ![a].pos = res.pos]
           /\ aexp' = [aexp EXCEPT ![a] = @ + (IF res.err = NoErr THEN res.n ELSE 0)]
           /\ last' = Call("AppendWrite", a, Len(p), 0, w.pos, 0, sa.err,
                           res.n, res.err)
           /\ appended' = Traced(appended, a, p, res.err)
    /\ UNCHANGED <<ctxVars, cursorVars, lsVars, initVars, mtxVars, rt>>

AppendSeek(a, offset, whence) ==
    /\ appenders[a].kind # "none"
    /\ LET w == appenders[a]
           res == Append_Seek(w.kind, w.pos, offset, whence)
       IN  /\ appenders' = [appenders EXCEPT ![a].pos = res.pos]
           /\ last' = Call("AppendSeek", a, offset, whence, w.pos, 0, NoErr,
                           res.ret, res.err)
    /\ UNCHANGED <<objects, ctxVars, cursorVars, aexp, lsVars, initVars, mtxVars, rt, appended>>

AppendTell(a) ==
    /\ appenders[a].kind # "none"
    /\ LET res == Appender_Tell(appenders[a].pos)
       IN  last' = Call("AppendTell", a, 0, 0, appenders[a].pos, 0, NoErr,
                        res.ret, res.err)
    /\ UNCHANGED <<objects, ctxVars, cursorVars, appenderVars, lsVars, initVars, mtxVars, rt, appended>>

Lens == 0..MaxLen

(***************************************************************************)
(* ListEntries. Go strings are sequences of one-character strings; s[i:]   *)
(* panics when i > len(s).                                                 *)
(***************************************************************************)
Sep == <<"/">>

HasSuffix(s, suf) ==
    Len(s) >= Len(suf) /\ SubSeq(s, Len(s) - Len(suf) + 1, Len(s)) = suf

HasPrefix(s, pre) == Len(s) >= Len(pre) /\ SubSeq(s, 1, Len(pre)) = pre

\* strings.LastIndex(s, "/"): 0-based, -1 when there is none.
LastIndexSep(s) ==
    LET at == {i \in 1..Len(s) : s[i] = "/"}
    IN  IF at = {} THEN 0 - 1 ELSE (CHOOSE i \in at : \A j \in at : j <= i) - 1

\* s[i:], for 0 <= i <= len(s).
SliceFrom(s, i) == SubSeq(s, i + 1, Len(s))
SlicePanics(s, i) == i > Len(s)

\* Mutation: the rest of the name is kept whole instead of being split.
FirstFragment_WholeRest(s) == s

\* strings.SplitN(s, "/", 2)[0]: s up to its first separator.
FirstFragment(s) ==
    LET at == {i \in 1..Len(s) : s[i] = "/"}
    IN  IF at = {} THEN s
        ELSE SubSeq(s, 1, (CHOOSE i \in at : \A j \in at : i <= j) - 1)

\* if !strings.HasSuffix(prefix, "/") { prefix += "/" }
NormalizedPrefix(uPath) == IF HasSuffix(uPath, Sep) THEN uPath ELSE uPath \o Sep

\* One round of the loop over iter.Value(): the names it adds to the set,
\* and whether the slice expression panics.
EntriesOf(path, uPath) ==
    LET prefix == NormalizedPrefix(uPath)
        base == IF path = uPath
                THEN {SliceFrom(path, LastIndexSep(path) + 1)} \ {<<>>}
                ELSE {}
        child == IF HasPrefix(path, prefix) /\ ~SlicePanics(path, Len(prefix) + 1)
                 THEN {FirstFragment(SliceFrom(path, Len(prefix) + 1))} \ {<<>>}
                 ELSE {}
    IN  [panics |-> HasPrefix(path, prefix) /\ SlicePanics(path, Len(prefix) + 1),
         set |-> base \cup child]

\* The call after getContext succeeded. iterErr: rctx.Iter() fails;
\* scanned: the names iter.Next() delivered before it returned false, which
\* happens at the end of the pool and at an error alike.
ListEntries(uPath, iterErr, scanned) ==
    IF iterErr # NoErr THEN [state |-> "returned", objs |-> {}, err |-> iterErr]
    ELSE IF \E path \in scanned : EntriesOf(path, uPath).panics
    THEN [state |-> "panicked", objs |-> {}, err |-> NoErr]
    ELSE [state |-> "returned",
          objs |-> UNION {EntriesOf(path, uPath).set : path \in scanned},
          err |-> NoErr]

\* for path, isset = range set { if isset { objs = append(objs, path) } }:
\* every value stored in the map is true, so each key is appended once; the
\* order of a range over a map is the runtime's choice. The lists it can build.
RECURSIVE RangeOverSet(_)
RangeOverSet(set) ==
    IF set = {} THEN {<<>>}
    ELSE UNION {{<<k>> \o rest : rest \in RangeOverSet(set \ {k})} : k \in set}

\* Object names and paths the listing is explored on.
NameUniverse ==
    { <<"a">>, <<"a", "/", "b">>, <<"a", "/", "c">>, <<"a", "/", "d", "/", "e">>,
      <<"a", "/">>, <<"a", "/", "b", "c">>, <<"a", "b">>,
      <<"x", "/", "a">>, <<"x", "/", "a", "/", "b", "d">>,
      <<"a", "/", "d", "c">> }
PathUniverse ==
    { <<>>, <<"a">>, <<"a", "/">>, <<"b">>, <<"x", "/", "a">>, <<"a", "/", "d">> }
ListHost == "p1"

InitList ==
    /\ InitStreams
    /\ objects = [o \in Oids |-> NoObject]
    /\ lsNames \in {S \in SUBSET NameUniverse : Cardinality(S) <= MaxObjects}
    /\ lsPath \in PathUniverse
    /\ lsOut = LsIdle
    /\ rt = RtOff
    /\ appended = NotTraced

\* last.sn tells whether the scan ended at an error, last.arg how many
\* names it delivered.
ListEntriesCall(openFail, iterOpenFail, iterFail, scanned) ==
    /\ lsOut.state # "panicked"
    /\ CtxGuard(ListHost)
    /\ scanned \subseteq lsNames
    /\ iterFail \/ scanned = lsNames
    /\ LET g == GetCtx(ListHost, openFail)
           out == ListEntries(lsPath, IF iterOpenFail THEN EIO ELSE NoErr, scanned)
       IN  /\ CtxEffect(ListHost, g)
           /\ IF g.err # NoErr
              THEN /\ lsOut' = [state |-> "returned", objs |-> {}, err |-> g.err,
                                list |-> <<>>]
                   /\ last' = Call("ListEntries", ListHost, 0, 0, 0, 0, NoErr, 0, g.err)
              ELSE /\ \E list \in RangeOverSet(out.objs) :
                        lsOut' = [state |-> out.state, objs |-> out.objs,
                                  err |-> out.err, list |-> list]
                   /\ last' = Call("ListEntries", ListHost,
                                   IF iterOpenFail THEN 0 ELSE Cardinality(scanned),
                                   0, 0,
                                   IF iterFail /\ ~iterOpenFail THEN 1 ELSE 0,
                                   IF iterOpenFail \/ iterFail THEN EIO ELSE NoErr,
                                   0, out.err)
    /\ UNCHANGED <<objects, cursorVars, appenderVars, lsNames, lsPath,
                 initVars, mtxVars, rt, appended>>

NextList ==
    \E f1, f2, f3 \in BOOLEAN, scanned \in SUBSET lsNames :
        ListEntriesCall(f1, f2, f3, scanned)

SpecList == InitList /\ [][NextList]_vars

(***************************************************************************)
(* Initialization: RegisterRadosConfig and initRadosConnection. `failing`  *)
(* is the set of client calls the environment makes fail.                  *)
(***************************************************************************)
InitSteps == {"ReadConfigFile", "ReadDefaultConfigFile",
              "ParseDefaultConfigEnv", "ParseCmdLineArgs", "Connect"}
ConfigPaths == {"", "/etc/ceph/ceph.conf", "/tmp/ceph.conf"}
Scheme == "rados"
\* fmt.Errorf("ReadConfigFile(%s) -> %s", ...)
ErrReadConfigFile == "ReadConfigFile(path) -> EIO"

\* What the call logs, returns, and whether it reaches AddImplementation.
initRadosConnection(configPath, failing) ==
    IF configPath # "" /\ "ReadConfigFile" \in failing
    THEN [err |-> ErrReadConfigFile, logged |-> {}, registers |-> FALSE]
    ELSE LET ran == (IF configPath = "" THEN {"ReadDefaultConfigFile"} ELSE {})
                    \cup {"ParseDefaultConfigEnv", "ParseCmdLineArgs", "Connect"}
             logged == ran \cap failing
         IN  IF "Connect" \in failing
             THEN [err |-> EIO, logged |-> logged, registers |-> FALSE]
             ELSE [err |-> NoErr, logged |-> logged, registers |-> TRUE]

\* RegisterRadosConfig(configPath): rados.NewConn(), then initRadosConnection.
RegisterRadosConfig(configPath, newConnFail, failing) ==
    /\ IF newConnFail
       THEN /\ lastInit' = [called |-> TRUE, constructed |-> FALSE,
                            configPath |-> configPath, failing |-> failing,
                            logged |-> {}, registered |-> FALSE, err |-> EIO]
            /\ UNCHANGED registry
       ELSE LET r == initRadosConnection(configPath, failing)
            IN  /\ lastInit' = [called |-> TRUE, constructed |-> TRUE,
                                configPath |-> configPath, failing |-> failing,
                                logged |-> r.logged, registered |-> r.registers,
                                err |-> r.err]
                /\ registry' = IF r.registers THEN registry \cup {Scheme}
                               ELSE registry
    /\ UNCHANGED <<objects, ctxVars, cursorVars, appenderVars, last, lsVars,
                   mtxVars, rt, appended>>

NextInit ==
    \E configPath \in ConfigPaths, nf \in BOOLEAN, failing \in SUBSET InitSteps :
        RegisterRadosConfig(configPath, nf, failing)

SpecInit == Init /\ [][NextInit]_vars

(***************************************************************************)
(* getContext called by several goroutines at once: each caller runs the   *)
(* body statement by statement, and the callers' statements interleave.    *)
(***************************************************************************)
\* Mutant: Lock() returns although another caller holds the mutex.
CanLock_Always(mtx) == TRUE

\* r.openContextsMtx.Lock() returns only when no caller holds the mutex.
CanLock(mtx) == mtx = NoOwner

\* Mutant: the mutex is unlocked on the successful returns only.
DeferredUnlock_NotOnError(mtx, me) == IF me.err # NoErr THEN mtx ELSE NoOwner

\* defer r.openContextsMtx.Unlock(): the mutex after the caller `me`
\* returned, on whichever return statement.
DeferredUnlock(mtx, me) == NoOwner

\* A goroutine calls r.getContext(pool).
GetContextEnter(t, pool) ==
    /\ callers[t].pc = "idle"
    /\ callers' = [callers EXCEPT ![t] = [IdleCaller EXCEPT !.pc = "lock",
                                                            !.pool = pool]]
    /\ UNCHANGED <<objects, ctxVars, cursorVars, appenderVars, last, lsVars,
                   initVars, openContextsMtx, rt, appended>>

\* r.openContextsMtx.Lock()
GetContextLock(t) ==
    /\ callers[t].pc = "lock"
    /\ CanLock(openContextsMtx)
    /\ openContextsMtx' = t
    /\ callers' = [callers EXCEPT ![t].pc = "lookup"]
    /\ UNCHANGED <<objects, ctxVars, cursorVars, appenderVars, last, lsVars,
                   initVars, rt, appended>>

\* if ret, ok = r.openContexts[pool]; ok && ret != nil { return ret, nil }
GetContextLookup(t) ==
    /\ callers[t].pc = "lookup"
    /\ LET pool == callers[t].pool
       IN  callers' = [callers EXCEPT ![t] =
               IF openContexts[pool] # Nil
               THEN [@ EXCEPT !.pc = "unlock", !.ret = openContexts[pool]]
               ELSE [@ EXCEPT !.pc = "open"]]
    /\ UNCHANGED <<objects, ctxVars, cursorVars, appenderVars, last, lsVars,
                   initVars, openContextsMtx, rt, appended>>

\* if ret, err = r.rfs.OpenIOContext(pool); err != nil { return nil, err }
GetContextOpen(t, fail) ==
    /\ callers[t].pc = "open"
    /\ opened[callers[t].pool] < MaxOpens
    /\ LET pool == callers[t].pool
           res == OpenIOContext(pool, opened[pool], fail)
       IN  /\ callers' = [callers EXCEPT ![t] =
                   IF res.err # NoErr
                   THEN [@ EXCEPT !.pc = "unlock", !.err = res.err, !.called = TRUE]
                   ELSE [@ EXCEPT !.pc = "store", !.ret = res.h, !.called = TRUE]]
           /\ opened' = IF res.err = NoErr
                        THEN [opened EXCEPT ![pool] = @ + 1] ELSE opened
    /\ UNCHANGED <<objects, openContexts, handed, cursorVars, appenderVars, last,
                   lsVars, initVars, openContextsMtx, rt, appended>>

\* r.openContexts[pool] = ret
GetContextStore(t) ==
    /\ callers[t].pc = "store"
    /\ openContexts' = [openContexts EXCEPT ![callers[t].pool] = callers[t].ret]
    /\ callers' = [callers EXCEPT ![t].pc = "unlock"]
    /\ UNCHANGED <<objects, opened, handed, cursorVars, appenderVars, last,
                   lsVars, initVars, openContextsMtx, rt, appended>>

\* The deferred r.openContextsMtx.Unlock(), and the return to the caller.
GetContextUnlock(t) ==
    /\ callers[t].pc = "unlock"
    /\ openContextsMtx' = DeferredUnlock(openContextsMtx, callers[t])
    /\ LET me == callers[t]
       IN  /\ handed' = IF me.err = NoErr
                        THEN [handed EXCEPT ![me.pool] = @ \cup {me.ret}]
                        ELSE handed
           /\ last' = Call("getContext", me.pool, 0, 0, 0,
                           IF me.called THEN 1 ELSE 0, NoErr, me.ret, me.err)
    /\ callers' = [callers EXCEPT ![t] = IdleCaller]
    /\ UNCHANGED <<objects, openContexts, opened, cursorVars, appenderVars,
                   lsVars, initVars, rt, appended>>

NextConc ==
    \/ \E t \in Callers, pool \in Pools : GetContextEnter(t, pool)
    \/ \E t \in Callers : GetContextLock(t)
    \/ \E t \in Callers : GetContextLookup(t)
    \/ \E t \in Callers, f \in BOOLEAN : GetContextOpen(t, f)
    \/ \E t \in Callers : GetContextStore(t)
    \/ \E t \in Callers : GetContextUnlock(t)

SpecConc == Init /\ [][NextConc]_vars

\* The same with a scheduler that lets every goroutine inside getContext
\* run, a client whose OpenIOContext returns, and a mutex that does not
\* starve a goroutine waiting in Lock().
SpecConcFair ==
    /\ Init
    /\ [][NextConc]_vars
    /\ \A t \in Callers :
          /\ SF_vars(GetContextLock(t))
          /\ WF_vars(GetContextLookup(t))
          /\ WF_vars(\E f \in BOOLEAN : GetContextOpen(t, f))
          /\ WF_vars(GetContextStore(t))
          /\ WF_vars(GetContextUnlock(t))

\* The cursor adapters and the facade operations that act on their object.
Next ==
    \/ \E c \in FacadeCursors, u \in URLs, f \in BOOLEAN : OpenReader(c, u, f)
    \/ \E c \in FacadeCursors, u \in URLs, f1, f2, cr \in BOOLEAN :
          OpenWriter(c, u, f1, f2, cr)
    \/ \E u \in URLs, f1, f2 \in BOOLEAN : Remove(u, f1, f2)
    \/ \E c \in DirectCursors, u \in URLs : ConstructRadosReadWriteCloser(c, u)
    \/ \E c \in CursorIds, len \in Lens, f \in BOOLEAN : Read(c, len, f)
    \/ \E c \in CursorIds, p \in Buffers, f \in BOOLEAN : Write(c, p, f)
    \/ \E c \in CursorIds, o \in Offsets, w \in Whences, f \in BOOLEAN :
          Seek(c, o, w, f)
    \/ \E c \in CursorIds : Tell(c)

Spec == Init /\ [][Next]_vars

\* The append adapters and the facade operations that act on their object.
NextAppend ==
    \/ \E a \in FacadeAppenders, u \in URLs, f1, f2, f3 \in BOOLEAN :
          OpenAppender(a, u, f1, f2, f3)
    \/ \E a \in DirectAppenders, u \in URLs, f \in BOOLEAN :
          ConstructRadosAppender(a, u, f)
    \/ \E u \in URLs, f1, f2 \in BOOLEAN : Remove(u, f1, f2)
    \/ \E a \in AppenderIds, p \in Buffers, f \in BOOLEAN : AppendWrite(a, p, f)
    \/ \E a \in AppenderIds, o \in AppendOffsets, w \in Whences : AppendSeek(a, o, w)
    \/ \E a \in AppenderIds : AppendTell(a)

SpecAppend == Init /\ [][NextAppend]_vars

\* The round trip of one cursor on a fresh object, with no other writer: the
\* monitor is started, and the cursor is called until the monitor is at its
\* end or off.
InitRoundTrip ==
    /\ InitStreams
    /\ objects \in [Oids -> {NoObject, Object(<<>>)}]
    /\ lsNames = {}
    /\ lsPath = <<>>
    /\ lsOut = LsIdle
    /\ rt = RtArmed
    /\ appended = NotTraced

RtRunning == rt.step \notin {"off", "end"}

NextRoundTrip ==
    \/ \E u \in URLs, f \in BOOLEAN : RtRunning /\ OpenReader(RtCursor, u, f)
    \/ \E u \in URLs, f1, f2, cr \in BOOLEAN :
          RtRunning /\ OpenWriter(RtCursor, u, f1, f2, cr)
    \/ \E len \in Lens, f \in BOOLEAN : RtRunning /\ Read(RtCursor, len, f)
    \/ \E p \in RoundTripBuffers, f \in BOOLEAN : RtRunning /\ Write(RtCursor, p, f)
    \/ \E o \in Offsets, w \in Whences, f \in BOOLEAN :
          RtRunning /\ Seek(RtCursor, o, w, f)
    \/ RtRunning /\ Tell(RtCursor)

SpecRoundTrip == InitRoundTrip /\ [][NextRoundTrip]_vars

\* Several appenders writing to one object, nothing else touching it; the
\* buffers they write are traced.
InitAppendOrder ==
    /\ InitStreams
    /\ objects \in [Oids -> {NoObject} \cup {Object(d) : d \in SeqsUpTo({0} \cup Bytes, 1)}]
    /\ lsNames = {}
    /\ lsPath = <<>>
    /\ lsOut = LsIdle
    /\ rt = RtOff
    /\ appended = [on |-> TRUE, base |-> [o \in Oids |-> objects[o].data],
                   by |-> [a \in AppenderIds |-> <<>>]]

NextAppendOrder ==
    \/ \E a \in FacadeAppenders, u \in URLs, f1, f2, f3 \in BOOLEAN :
          OpenAppender(a, u, f1, f2, f3)
    \/ \E a \in DirectAppenders, u \in URLs, f \in BOOLEAN :
          ConstructRadosAppender(a, u, f)
    \/ \E a \in AppenderIds, p \in AppendOrderBuffers, f \in BOOLEAN :
          AppendWrite(a, p, f)

SpecAppendOrder == InitAppendOrder /\ [][NextAppendOrder]_vars

\* Every adapter's Write, the constructors and Remove.
NextWrite ==
    \/ \E c \in FacadeCursors, u \in URLs, f \in BOOLEAN : OpenReader(c, u, f)
    \/ \E c \in FacadeCursors, u \in URLs, f1, f2, cr \in BOOLEAN :
          OpenWriter(c, u, f1, f2, cr)
    \/ \E c \in DirectCursors, u \in URLs : ConstructRadosReadWriteCloser(c, u)
    \/ \E a \in FacadeAppenders, u \in URLs, f1, f2, f3 \in BOOLEAN :
          OpenAppender(a, u, f1, f2, f3)
    \/ \E a \in DirectAppenders, u \in URLs, f \in BOOLEAN :
          ConstructRadosAppender(a, u, f)
    \/ \E u \in URLs, f1, f2 \in BOOLEAN : Remove(u, f1, f2)
    \/ \E c \in CursorIds, p \in Buffers, f \in BOOLEAN : Write(c, p, f)
    \/ \E a \in AppenderIds, p \in Buffers, f \in BOOLEAN : AppendWrite(a, p, f)

SpecWrite == Init /\ [][NextWrite]_vars

\* getContext called for several pools, one call after the other.
NextCtx == \E pool \in Pools, f \in BOOLEAN : GetContextCall(pool, f)

SpecCtx == Init /\ [][NextCtx]_vars

(***************************************************************************)
(* Properties.                                                             *)
(***************************************************************************)
Constructed(c) == cursors[c].kind # "none"
AConstructed(a) == appenders[a].kind # "none"
CursorObjSize(c) == ObjSize(objects[cursors[c].oid])

\* C1: after any sequence of successful Read and Write calls with no Seek in
\* between, a cursor adapter's Tell() is the position at the start of the
\* sequence plus the byte counts the calls returned.
C1_CursorPositionIsSum ==
    \A c \in CursorIds :
        Constructed(c) => ReadWriteCloser_Tell(cursors[c].pos).ret = cexp[c]

\* A Write that returned 1 byte at position 1 left the position at 2.
C1_Witness ==
    /\ last.op = "Write" /\ last.id = "rwc"
    /\ last.err = NoErr /\ last.ret = 1 /\ last.old = 1
    /\ cursors["rwc"].pos = 2

\* C2: with the object's size S known (stat succeeds), Seek(offset, Start)
\* succeeds iff 0 <= offset <= S and Seek(offset, End) iff 0 <= S+offset <= S;
\* a successful Seek sets and returns the target, an out-of-range one returns
\* os.ErrInvalid and the old position, which stays.
C2_SeekBounds ==
    (last.op = "Seek" /\ last.serr = NoErr /\ last.whence \in {SEEK_SET, SEEK_END}) =>
        LET S == CursorObjSize(last.id)
            target == IF last.whence = SEEK_SET THEN last.arg ELSE S + last.arg
            inRange == 0 <= target /\ target <= S
            pos == cursors[last.id].pos
        IN  /\ (last.err = NoErr) <=> inRange
            /\ inRange => (last.ret = target /\ pos = target)
            /\ ~inRange => (last.err = ErrInvalid /\ last.ret = last.old
                            /\ pos = last.old)

\* Seek(-1, End) on an object of size 2 succeeded and returned 1.
C2_Witness ==
    /\ last.op = "Seek" /\ last.whence = SEEK_END /\ last.arg = 0 - 1
    /\ last.err = NoErr /\ last.ret = 1 /\ last.sn = 2

\* What C3 says ListEntries returns.
ListingExpected(names, uPath) ==
    LET norm == NormalizedPrefix(uPath)
        children == {FirstFragment(SubSeq(n, Len(norm) + 1, Len(n))) :
                        n \in {m \in names : HasPrefix(m, norm)}}
        base == IF uPath \in names
                THEN {SubSeq(uPath, LastIndexSep(uPath) + 2, Len(uPath))}
                ELSE {}
    IN  (children \cup base) \ {<<>>}

\* C3: ListEntries returns exactly the first segments, after the normalized
\* prefix, of the names that start with it, plus the basename of the prefix
\* when an object is named like it (stated for the calls that return after a
\* complete scan).
C3_ListingExact ==
    (last.op = "ListEntries" /\ last.err = NoErr /\ last.serr = NoErr
        /\ lsOut.state = "returned") =>
        lsOut.objs = ListingExpected(lsNames, lsPath)

\* C4: for each pool OpenIOContext succeeds at most once, every successful
\* getContext returns that handle, and a failed open leaves no entry.
C4_CacheInvariant ==
    /\ \A p \in Pools :
          /\ opened[p] <= 1
          /\ handed[p] \subseteq {openContexts[p]}
    /\ (last.op = "getContext" /\ last.err # NoErr) =>
          (openContexts[last.id] = Nil /\ last.sn = 1)
    /\ (last.op = "getContext" /\ last.err = NoErr) =>
          last.ret = openContexts[last.id]

\* C4: a cached entry is never removed or replaced, and a getContext for a
\* pool without an entry calls OpenIOContext.
C4_CacheStep ==
    \A p \in Pools :
        /\ openContexts[p] # Nil => openContexts'[p] = openContexts[p]
        /\ (openContexts[p] = Nil /\ last'.op = "getContext" /\ last'.id = p)
              => last'.sn = 1

\* C4: the context cache after any sequence of sequential getContext calls.
C4_ContextCache == []C4_CacheInvariant /\ [][C4_CacheStep]_vars

\* A getContext answered from the cache with the handle opened before.
C4_Witness ==
    /\ last.op = "getContext" /\ last.id = "p1" /\ last.sn = 0
    /\ last.err = NoErr /\ last.ret = <<"p1", 1>>
    /\ opened["p1"] = 1

\* C5: an appender's Tell() is the position set at construction plus the
\* byte counts of its successful Writes, whatever other appenders write to
\* the object; constructed on an absent object it starts at 0.
C5_AppendPositionIsSum ==
    /\ \A a \in AppenderIds :
          AConstructed(a) => Appender_Tell(appenders[a].pos).ret = aexp[a]
    /\ (last.op \in {"OpenAppender", "NewRadosAppender"}
            /\ last.err = NoErr /\ last.serr = ENOENT) =>
          appenders[last.id].pos = 0

\* The appender wrote 2 bytes from position 0 after the other appender had
\* written too: its position is 2, the object's size 3.
C5_Witness ==
    /\ last.op = "AppendWrite" /\ last.id = "app"
    /\ last.err = NoErr /\ last.ret = 2 /\ last.old = 0
    /\ appenders["app"].pos = 2
    /\ AConstructed("rapp") /\ aexp["rapp"] > 0 /\ appenders["rapp"].pos = 1
    /\ ObjSize(objects[appenders["app"].oid]) = 3

\* C6: an appender's Seek returns the current position, without error for
\* Seek(0, Current) and with filesystem.EUNSUPP for every other pair.
C6_SeekResult ==
    last.op = "AppendSeek" =>
        /\ last.ret = last.old
        /\ appenders[last.id].pos = last.old
        /\ (last.err = NoErr) <=> (last.arg = 0 /\ last.whence = SEEK_CUR)
        /\ last.err # NoErr => last.err = EUNSUPP

\* C6: the Seek leaves the adapter and the object as they were.
C6_SeekStep ==
    last'.op = "AppendSeek" => (appenders' = appenders /\ objects' = objects)

\* C6: Seek on an append adapter.
C6_AppendSeek == []C6_SeekResult /\ [][C6_SeekStep]_vars

\* Seek(1, Current) at position 2 was refused.
C6_Witness ==
    /\ last.op = "AppendSeek" /\ last.arg = 1 /\ last.whence = SEEK_CUR
    /\ last.err = EUNSUPP /\ last.ret = 2

\* C7: a Write of a cursor or append adapter either returns len(p) without
\* error and has advanced the position by len(p), or returns 0 with the
\* store's error and has left the position.
C7_WriteAllOrNothing ==
    last.op \in {"Write", "AppendWrite"} =>
        LET pos == IF last.op = "Write" THEN cursors[last.id].pos
                   ELSE appenders[last.id].pos
        IN  \/ /\ last.err = NoErr /\ last.serr = NoErr
               /\ last.ret = last.arg
               /\ pos = last.old + last.arg
            \/ /\ last.err # NoErr /\ last.err = last.serr
               /\ last.ret = 0
               /\ pos = last.old

\* A Write of one byte at position 1 failed.
C7_Witness ==
    /\ last.op = "Write" /\ last.id = "rwc" /\ last.arg = 1 /\ last.old = 1
    /\ last.err = EIO /\ last.ret = 0

\* C8 as stated: every cursor's position is within its object at all times.
C8_PositionWithinObject ==
    \A c \in CursorIds :
        Constructed(c) =>
            (0 <= cursors[c].pos /\ cursors[c].pos <= CursorObjSize(c))

\* C8, amended: the position is never negative, and it is within the object
\* as long as no truncation or removal of the object succeeded since the
\* adapter was constructed.
C8_PositionWithinUnshrunkObject ==
    \A c \in CursorIds :
        Constructed(c) =>
            /\ 0 <= cursors[c].pos
            /\ ~shrunk[c] => cursors[c].pos <= CursorObjSize(c)

\* Another adapter wrote to the object while this one stood at position 1.
C8_Witness ==
    /\ last.op = "Write" /\ last.id = "rrwc" /\ last.err = NoErr /\ last.ret = 1
    /\ Constructed("rwc") /\ cursors["rwc"].pos = 1
    /\ ~shrunk["rwc"] /\ ~shrunk["rrwc"]

\* C9: a cursor's Read signals io.EOF exactly when the store's read delivers
\* 0 bytes without error, and then returns 0 and leaves the position; when
\* the store delivers n > 0 it returns n and advances by n without io.EOF.
C9_ReadSignalsEndOfStream ==
    last.op = "Read" =>
        LET pos == cursors[last.id].pos
        IN  /\ (last.err = EOF) <=> (last.sn = 0 /\ last.serr = NoErr)
            /\ last.err = EOF => (last.ret = 0 /\ pos = last.old)
            /\ last.sn > 0 => (last.ret = last.sn /\ pos = last.old + last.sn
                               /\ last.err = NoErr)

\* C10: once the context is there, constructing an append adapter succeeds
\* whatever store call fails, at the object's size or at 0.
C10_AppenderConstructionSucceeds ==
    (last.op \in {"OpenAppender", "NewRadosAppender"} /\ last.arg = 1) =>
        /\ last.err = NoErr
        /\ AConstructed(last.id)
        /\ appenders[last.id].pos =
              (IF last.serr = NoErr THEN ObjSize(objects[appenders[last.id].oid])
               ELSE 0)

\* C11: when the iteration over the pool's object names fails, at the
\* opening of the iterator or during the scan, ListEntries returns that error
\* and no names.
C11_ListingFailureAborts ==
    (last.op = "ListEntries" /\ last.serr # NoErr /\ lsOut.state = "returned") =>
        (lsOut.err = last.serr /\ lsOut.objs = {})

\* C20: ListEntries never fails at run time on the slice expression, whatever
\* the prefix and the object names are.
C20_ListEntriesNeverPanics ==
    last.op = "ListEntries" => lsOut.state # "panicked"

\* C12: with the client constructed, initialization returns an error only
\* when Connect fails; failures of reading the configuration file (explicit or
\* default), of the environment and of the arguments are logged and the call
\* goes on; the handler is registered iff Connect succeeds.
C12_InitFailsOnlyOnConnect ==
    (lastInit.called /\ lastInit.constructed) =>
        /\ (lastInit.err # NoErr) <=> ("Connect" \in lastInit.failing)
        /\ lastInit.registered <=> ("Connect" \notin lastInit.failing)
        /\ lastInit.registered => Scheme \in registry

\* C13: however concurrent getContext calls interleave, OpenIOContext
\* succeeds at most once per pool and all callers that get a handle for a
\* pool get the same one.
C13_SingleContextPerPool ==
    \A p \in Pools :
        /\ opened[p] <= 1
        /\ Cardinality(handed[p]) <= 1
        /\ \A t \in Callers :
              (callers[t].pc = "unlock" /\ callers[t].pool = p
                  /\ callers[t].err = NoErr) =>
                 handed[p] \subseteq {callers[t].ret}

\* A caller is about to return the handle another caller opened, found in
\* the cache, while that other caller waits for the mutex again.
C13_Witness ==
    /\ callers["t2"].pc = "unlock" /\ callers["t2"].pool = "p1"
    /\ ~callers["t2"].called /\ callers["t2"].ret = <<"p1", 1>>
    /\ handed["p1"] = {<<"p1", 1>>}
    /\ callers["t1"].pc = "lock" /\ callers["t1"].pool = "p1"

\* C14: an OpenWriter that succeeds has truncated the object to size 0 and
\* returns a cursor at position 0 on the pool's context; one that fails, at
\* getContext or at the truncation, returns the error and no adapter, leaves
\* the object as it was, and after a failed getContext calls no Truncate.
C14_OpenWriterStep ==
    last'.op = "OpenWriter" =>
        LET c == last'.id
        IN  IF last'.err = NoErr
            THEN /\ last'.arg = 1 /\ last'.sn = 0
                 /\ \A u \in URLs : ObjSize(objects'[u.Path]) = 0
                 /\ last'.ret = c
                 /\ cursors'[c].kind = "ReadWriteCloser"
                 /\ cursors'[c].pos = 0
                 /\ cursors'[c].rctx # Nil
                 /\ cursors'[c].rctx \in {openContexts'[u.Host] : u \in URLs}
            ELSE /\ last'.ret = Nil
                 /\ cursors' = cursors
                 /\ objects' = objects
                 /\ last'.serr = NoErr => last'.arg = 0
                 /\ last'.serr # NoErr => last'.err = last'.serr

\* C14: OpenWriter truncates before it returns an adapter.
C14_OpenWriterTruncates == [][C14_OpenWriterStep]_vars

\* OpenWriter succeeded on an object another cursor had written 2 bytes to.
C14_Witness ==
    /\ last.op = "OpenWriter" /\ last.err = NoErr /\ last.id = "rwc"
    /\ cursors["rwc"].pos = 0
    /\ cursors["rrwc"].pos = 2 /\ shrunk["rrwc"]
    /\ \A u \in URLs : objects[u.Path] = Object(<<>>)

RECURSIVE Merges(_, _)
Merges(s, t) ==
    IF s = <<>> THEN {t}
    ELSE IF t = <<>> THEN {s}
    ELSE {<<Head(s)>> \o m : m \in Merges(Tail(s), t)}
         \cup {<<Head(t)>> \o m : m \in Merges(s, Tail(t))}

\* The buffers of a sequence one after the other.
RECURSIVE Flatten(_)
Flatten(bufs) == IF bufs = <<>> THEN <<>> ELSE Head(bufs) \o Flatten(Tail(bufs))

\* C16: with several appenders writing to one object, its content is the
\* initial content followed by the buffers of the successful Writes, each
\* whole, in an order that keeps every appender's call order; its size is the
\* initial size plus the lengths of those buffers.
C16_AppendsInterleaveWhole ==
    appended.on =>
        \A o \in Oids :
            /\ \E m \in Merges(appended.by["app"], appended.by["rapp"]) :
                  objects[o].data = appended.base[o] \o Flatten(m)
            /\ ObjSize(objects[o]) =
                  Len(appended.base[o]) + Len(Flatten(appended.by["app"]))
                                        + Len(Flatten(appended.by["rapp"]))

\* One appender wrote <<1>> and <<2>>, the other wrote <<2, 1>> in between.
C16_Witness ==
    /\ appended.on
    /\ appended.by["app"] = << <<1>>, <<2>> >>
    /\ appended.by["rapp"] = << <<2, 1>> >>
    /\ \E o \in Oids : objects[o].data = appended.base[o] \o <<1, 2, 1, 2>>

\* The object id C17 says the store is given: the path without its leading
\* slash.
TrimLeadingSlash(path) ==
    IF HasPrefix(path, Sep) THEN SliceFrom(path, 1) ELSE path

\* C17: the facade uses the pool named by the URL's host, and gives the store
\* the URL's path without its leading slash as the object id.
C17_ObjectIdIsPathWithoutSlash ==
    /\ \A c \in FacadeCursors :
          Constructed(c) =>
              \E u \in URLs : /\ cursors[c].rctx = openContexts[u.Host]
                              /\ cursors[c].oid = TrimLeadingSlash(u.Path)
    /\ \A a \in FacadeAppenders :
          AConstructed(a) =>
              \E u \in URLs : /\ appenders[a].rctx = openContexts[u.Host]
                              /\ appenders[a].oid = TrimLeadingSlash(u.Path)
    /\ last.op = "Remove" =>
          \E u \in URLs : last.id = TrimLeadingSlash(u.Path)

\* C18: with position p and the size S that the Stat of this call reads (the
\* object's size at that time), Seek(offset, Current) succeeds iff
\* 0 <= p+offset <= S and then sets and returns p+offset; otherwise it
\* returns p with os.ErrInvalid and the position stays.
C18_SeekCurrent ==
    (last.op = "Seek" /\ last.serr = NoErr /\ last.whence = SEEK_CUR) =>
        LET S == last.sn
            target == last.old + last.arg
            inRange == 0 <= target /\ target <= S
            pos == cursors[last.id].pos
        IN  /\ S = CursorObjSize(last.id)
            /\ (last.err = NoErr) <=> inRange
            /\ inRange => (last.ret = target /\ pos = target)
            /\ ~inRange => (last.err = ErrInvalid /\ last.ret = last.old
                            /\ pos = last.old)

\* After the object was truncated under a cursor at position 2, even its
\* Seek(0, Current) is refused.
C18_Witness ==
    /\ last.op = "Seek" /\ last.whence = SEEK_CUR /\ last.arg = 0
    /\ last.old = 2 /\ last.sn = 0 /\ last.serr = NoErr
    /\ last.err = ErrInvalid /\ shrunk[last.id]

\* C19: a Seek whose Stat fails returns the old position and the store's
\* error as it is, and the position stays, for every offset and whence.
C19_FailedStatResult ==
    (last.op = "Seek" /\ last.serr # NoErr) =>
        /\ last.ret = last.old
        /\ last.err = last.serr
        /\ cursors[last.id].pos = last.old

\* C19: a Seek asks the store for the size and changes no object; one whose
\* Stat fails changes no adapter either.
C19_SeekStep ==
    last'.op = "Seek" =>
        /\ objects' = objects
        /\ last'.serr # NoErr => cursors' = cursors

\* C19: Seek when the size query fails.
C19_SeekStatFailure == []C19_FailedStatResult /\ [][C19_SeekStep]_vars

\* Seek(0, Current) at position 1 on an object that is gone returned 1 and
\* the store's error.
C19_Witness ==
    /\ last.op = "Seek" /\ last.whence = SEEK_CUR /\ last.arg = 0
    /\ last.old = 1 /\ last.serr = ENOENT
    /\ last.err = ENOENT /\ last.ret = 1

\* C21: a cursor's Seek with a whence that is none of SEEK_SET, SEEK_CUR,
\* SEEK_END, whose Stat succeeds, ignores the offset: it sets the position
\* to 0 and returns 0 without error.
C21_SeekOtherWhence ==
    (last.op = "Seek" /\ last.serr = NoErr
        /\ last.whence \notin {SEEK_SET, SEEK_CUR, SEEK_END}) =>
        /\ last.ret = 0
        /\ last.err = NoErr
        /\ cursors[last.id].pos = 0

\* Seek(2, other) at position 2 returned 0.
C21_Witness ==
    /\ last.op = "Seek" /\ last.whence = SEEK_OTHER /\ last.arg = 2
    /\ last.old = 2 /\ last.serr = NoErr
    /\ last.ret = 0 /\ cursors[last.id].pos = 0

\* C22: the mutex is held only by a caller that is between Lock() and its
\* return, so never while no getContext call is in progress.
C22_LockHeldOnlyInCall ==
    /\ openContextsMtx # NoOwner =>
          (/\ openContextsMtx \in Callers
           /\ callers[openContextsMtx].pc \in {"lookup", "open", "store", "unlock"})
    /\ (\A t \in Callers : callers[t].pc = "idle") => openContextsMtx = NoOwner

\* C22: the mutex is released on every return path, and with a fair mutex
\* and an OpenIOContext that returns, every getContext call returns, also
\* after calls that failed.
C22_LockReleasedCallsReturn ==
    /\ []C22_LockHeldOnlyInCall
    /\ \A t \in Callers : (callers[t].pc # "idle") ~> (callers[t].pc = "idle")

\* A call whose OpenIOContext failed has returned and left the mutex free
\* while another caller waits in Lock().
C22_Witness ==
    /\ last.op = "getContext" /\ last.err = EIO /\ last.sn = 1
    /\ openContextsMtx = NoOwner
    /\ callers["t1"].pc = "idle"
    /\ callers["t2"].pc = "lock"

\* The appender is the only adapter on its object (in the behaviours where
\* the appends are traced nothing else modifies the object).
SoleAppender(a) ==
    /\ appended.on
    /\ AConstructed(a)
    /\ \A b \in AppenderIds \ {a} : ~AConstructed(b)
    /\ \A c \in CursorIds : ~Constructed(c)

C24_ListingNamesWellFormed ==
    (last.op = "ListEntries" /\ lsOut.state = "returned" /\ lsOut.err = NoErr) =>
        /\ \A i, j \in 1..Len(lsOut.list) :
              lsOut.list[i] = lsOut.list[j] => i = j
        /\ \A i \in 1..Len(lsOut.list) :
              /\ lsOut.list[i] # <<>>
              /\ \A k \in 1..Len(lsOut.list[i]) : lsOut.list[i][k] # "/"

\* Two objects below the prefix put the same name into the map, a third an
\* empty one that is dropped, and an object named like the prefix its
\* basename: the list holds the shared name once.
C24_Witness ==
    /\ last.op = "ListEntries" /\ lsOut.state = "returned" /\ lsOut.err = NoErr
    /\ last.serr = NoErr /\ last.arg = 4
    /\ lsPath = <<"a">>
    /\ lsNames = {<<"a">>, <<"a", "/", "b", "c">>, <<"a", "/", "d", "c">>,
                  <<"a", "/", "d", "/", "e">>}
    /\ lsOut.list = <<<<"c">>, <<"a">>>>

====
